---- MODULE Spec2Model ----
(***************************************************************************)
(* Model of the two provider-mirror entry points:                          *)
(*   mirror-provider-local.py  (local archives  -> mirror bucket)          *)
(*   mirror-provider.py        (release bucket  -> mirror bucket)          *)
(* Strings are tuples of one-character strings so that parsing, key        *)
(* construction and lexicographic sorting are computed, not assumed.       *)
(***************************************************************************)
EXTENDS Integers, Sequences, FiniteSets, TLC

VARIABLES variant, src, dest, storeOf, active, proc, runs, changes, argvs, parseIn, parseOut,
          keyIn, keyOut

vars ==
    <<variant, src, dest, storeOf, active, proc, runs, changes, argvs, parseIn, parseOut,
      keyIn, keyOut>>

\* Optional[Archive] / absent record.
None == [none |-> TRUE]
\* Absent string (a None where a str is expected).
Null == <<"null">>
\* No key computation asked for / made.
NoKeyIn == [arg |-> Null, path |-> Null]
NoKeys == [done |-> FALSE, local |-> None, remote |-> None]

(***************************************************************************)
(* Strings                                                                 *)
(***************************************************************************)
\* Characters used by the model, in code-point order (str comparison in
\* Python is by code point).
Chars == <<"-", ".", "/", "1", "2", "_", "a", "d", "i", "j", "l", "n", "o", "p", "q", "s", "x", "y", "z">>

Ord(c) == CHOOSE i \in 1..Len(Chars) : Chars[i] = c

RECURSIVE StrLess(_, _)
StrLess(s, t) ==
    IF t = <<>> THEN FALSE
    ELSE IF s = <<>> THEN TRUE
    ELSE IF Head(s) = Head(t) THEN StrLess(Tail(s), Tail(t))
    ELSE Ord(Head(s)) < Ord(Head(t))

\* Lexicographic comparison of tuples of strings (NamedTuple ordering).
RECURSIVE TupleLess(_, _)
TupleLess(a, b) ==
    IF b = <<>> THEN FALSE
    ELSE IF a = <<>> THEN TRUE
    ELSE IF Head(a) = Head(b) THEN TupleLess(Tail(a), Tail(b))
    ELSE StrLess(Head(a), Head(b))

EndsWith(s, suf) ==
    /\ Len(s) >= Len(suf)
    /\ SubSeq(s, Len(s) - Len(suf) + 1, Len(s)) = suf

\* Positions of character c in s.
Positions(s, c) == {i \in 1..Len(s) : s[i] = c}

Max(S) == CHOOSE m \in S : \A x \in S : x <= m
Min(S) == CHOOSE m \in S : \A x \in S : m <= x

\* s.split(sep)[-1]  /  os.path.basename(s)
LastSegment(s) ==
    IF Positions(s, "/") = {} THEN s
    ELSE SubSeq(s, Max(Positions(s, "/")) + 1, Len(s))

\* s.split(sep, maxsplit): cut at the first maxsplit separators only.
RECURSIVE Split(_, _, _)
Split(s, sep, maxsplit) ==
    IF maxsplit = 0 \/ Positions(s, sep) = {} THEN <<s>>
    ELSE LET i == Min(Positions(s, sep))
         IN  <<SubSeq(s, 1, i - 1)>> \o Split(SubSeq(s, i + 1, Len(s)), sep, maxsplit - 1)

\* os.path.splitext(file_name)[0]: cut at the last dot, unless only dots
\* precede it (leading dots are not an extension).
SplitextRoot(f) ==
    IF Positions(f, ".") = {} THEN f
    ELSE LET d == Max(Positions(f, "."))
         IN  IF \E i \in 1..(d - 1) : f[i] # "." THEN SubSeq(f, 1, d - 1) ELSE f

ZipExt == <<".", "z", "i", "p">>

\* without_ext in the two variants.
WithoutExt(v, file_name) ==
    IF v = "local" THEN SplitextRoot(file_name)
    ELSE SubSeq(file_name, 1, Len(file_name) - 4)

\* Mutant: split on every underscore (no maxsplit).
ParsePartsAll(v, file_name) == Split(WithoutExt(v, file_name), "_", Len(file_name))

ParseParts(v, file_name) == Split(WithoutExt(v, file_name), "_", 3)

\* Mutant: the empty-part check is missing.
ParseAllowEmpty(v, path) ==
    LET file_name == LastSegment(path)
    IN  IF ~EndsWith(file_name, ZipExt) THEN None
        ELSE LET parts == ParseParts(v, file_name)
             IN  IF Len(parts) # 4
                 THEN None
                 ELSE [path |-> path, file_name |-> file_name,
                       provider |-> parts[1], version |-> parts[2],
                       os |-> parts[3], arch |-> parts[4]]

\* Archive.parse: an Archive record or None.
Parse(v, path) ==
    LET file_name == LastSegment(path)
    IN  IF ~EndsWith(file_name, ZipExt) THEN None
        ELSE LET parts == ParseParts(v, file_name)
             IN  IF Len(parts) # 4 \/ \E i \in 1..Len(parts) : parts[i] = <<>>
                 THEN None
                 ELSE [path |-> path, file_name |-> file_name,
                       provider |-> parts[1], version |-> parts[2],
                       os |-> parts[3], arch |-> parts[4]]

(***************************************************************************)
(* Bounds and the small universe the inputs are drawn from                 *)
(***************************************************************************)
MaxFiles == 2      \* source files / release objects that exist
MaxInputs == 2     \* length of the local command line's archive list
MaxRuns == 2       \* invocations per process
MaxChanges == 1    \* source modifications between runs
MaxStem == 7       \* length of the stem of a parsed name
MaxArg == 4        \* length of the mirror location argument

\* Invocations (processes) and mirror buckets.  Processes 1 and 2 are the
\* ones compared with each other; process 3 is a run on its own.
Procs == {1, 2, 3}
Stores == {1, 2}

Dir(d) == <<d, "/">>
A1 == Dir("x") \o <<"p", "_", "1", "_", "l", "_", "a">> \o ZipExt
A2 == Dir("y") \o <<"p", "_", "1", "_", "l", "_", "a">> \o ZipExt
A3 == Dir("x") \o <<"p", "_", "1", "_", "d", "_", "a">> \o ZipExt
A4 == Dir("x") \o <<"p", "_", "2", "_", "l", "_", "a">> \o ZipExt
A5 == Dir("x") \o <<"q", "_", "1", "_", "l", "_", "a">> \o ZipExt
A6 == Dir("x") \o <<"p", "_", "1", "_", "l", "_">> \o ZipExt
Candidates == {A1, A2, A3, A4, A5, A6}

Contents == {<<"c1">>, <<"c2">>}
InitContent(path) == IF path = A2 THEN <<"c2">> ELSE <<"c1">>

\* The external fingerprint procedure: deterministic, one digest per content.
\* Digests are non-empty strings, so "has a dirhash" is "the header is present".
Fingerprint(c) == IF c = <<"c1">> THEN <<"h", "1">> ELSE <<"h", "2">>

NoMeta == Null

\* parse_bucket_and_prefix: cut at the first slash; no slash, empty prefix.
ParseBucketAndPrefix(v) ==
    LET parts == Split(v, "/", 1)
    IN  IF Len(parts) = 2 THEN <<parts[1], parts[2]>> ELSE <<parts[1], <<>>>>

\* The mirror location the runs are given, as in the documented usage:
\* bucket b, prefix m/.
MirrorArg == <<"b", "/", "m", "/">>
OutPrefix == ParseBucketAndPrefix(MirrorArg)[2]
JsonExt == <<".", "j", "s", "o", "n">>
IndexName == <<"i", "n", "d", "e", "x">>

(***************************************************************************)
(* Python containers                                                       *)
(***************************************************************************)
\* dict: a sequence of <<key, value>> pairs in insertion order.
DictKeys(d) == {d[i][1] : i \in 1..Len(d)}
DictGet(d, k) == d[CHOOSE i \in 1..Len(d) : d[i][1] = k][2]
DictSet(d, k, v) ==
    IF k \in DictKeys(d)
    THEN [i \in 1..Len(d) |-> IF d[i][1] = k THEN <<k, v>> ELSE d[i]]
    ELSE Append(d, <<k, v>>)

\* sorted(S) for a set of strings.
RECURSIVE SortedStrs(_)
SortedStrs(S) ==
    IF S = {} THEN <<>>
    ELSE LET m == CHOOSE x \in S : \A y \in S \ {x} : StrLess(x, y)
         IN  <<m>> \o SortedStrs(S \ {m})

ArchiveTuple(a) == <<a.path, a.file_name, a.provider, a.version, a.os, a.arch>>

\* sorted(archives) for a set of Archive tuples.
RECURSIVE SortedArchives(_)
SortedArchives(S) ==
    IF S = {} THEN <<>>
    ELSE LET m == CHOOSE x \in S : \A y \in S \ {x} : TupleLess(ArchiveTuple(x), ArchiveTuple(y))
         IN  <<m>> \o SortedArchives(S \ {m})

\* json.dumps(d, sort_keys=True, indent=2) of a one-key document: the
\* top-level key followed by the inner object's members in key order.
RECURSIVE SortedItems(_)
SortedItems(d) ==
    IF d = <<>> THEN <<>>
    ELSE LET k == CHOOSE x \in DictKeys(d) : \A y \in DictKeys(d) \ {x} : StrLess(x, y)
         IN  <<<<k, DictGet(d, k)>>>> \o SortedItems(SelectSeq(d, LAMBDA e : e[1] # k))

Dumps(top, d) == <<top, SortedItems(d)>>

(***************************************************************************)
(* Grouping: provider_versions[provider][version] is a set of Archives     *)
(***************************************************************************)
\* Mutant: the version's set is assigned, not added to.
AddArchiveReplace(pv, a) ==
    LET vs == IF a.provider \in DOMAIN pv THEN pv[a.provider] ELSE <<>>
        vs2 == [v \in (DOMAIN vs) \cup {a.version} |->
                   IF v = a.version THEN {a} ELSE vs[v]]
    IN  [p \in (DOMAIN pv) \cup {a.provider} |->
            IF p = a.provider THEN vs2 ELSE pv[p]]

AddArchive(pv, a) ==
    LET vs == IF a.provider \in DOMAIN pv THEN pv[a.provider] ELSE <<>>
        as == IF a.version \in DOMAIN vs THEN vs[a.version] ELSE {}
        vs2 == [v \in (DOMAIN vs) \cup {a.version} |->
                   IF v = a.version THEN as \cup {a} ELSE vs[v]]
    IN  [p \in (DOMAIN pv) \cup {a.provider} |->
            IF p = a.provider THEN vs2 ELSE pv[p]]

RECURSIVE Gather(_, _, _)
Gather(v, paths, pv) ==
    IF paths = <<>> THEN pv
    ELSE LET archive == Parse(v, Head(paths))
         IN  Gather(v, Tail(paths),
                    IF archive # None THEN AddArchive(pv, archive) ELSE pv)

SeqToSet(s) == {s[i] : i \in 1..Len(s)}

(***************************************************************************)
(* Destination keys                                                        *)
(***************************************************************************)
\* Mutant: the remote layout without the version directory.
MirrorKeyFlat(out_prefix, v, a) == out_prefix \o a.file_name

\* f'{out_prefix}{archive.file_name}' (local),
\* f'{out_prefix}{archive.version}/{archive.file_name}' (remote)
MirrorKeyAt(out_prefix, v, a) ==
    IF v = "local" THEN out_prefix \o a.file_name
    ELSE out_prefix \o a.version \o <<"/">> \o a.file_name

\* f'{out_prefix}{version}.json' and f'{out_prefix}index.json'
VersionKeyAt(out_prefix, version) == out_prefix \o version \o JsonExt
IndexKeyAt(out_prefix) == out_prefix \o IndexName \o JsonExt

MirrorKey(v, a) == MirrorKeyAt(OutPrefix, v, a)

Url(v, a) ==
    IF v = "local" THEN a.file_name
    ELSE a.version \o <<"/">> \o a.file_name

VersionKey(version) == VersionKeyAt(OutPrefix, version)
IndexKey == IndexKeyAt(OutPrefix)

OsArch(a) == a.os \o <<"_">> \o a.arch

\* Mutant: the write replaces the whole prefix.
PutObjectOnly(store, key, obj) == [k \in {key} |-> obj]

\* Object.put / upload_file / copy_from: add or overwrite one key.
PutObject(store, key, obj) ==
    [k \in (DOMAIN store) \cup {key} |-> IF k = key THEN obj ELSE store[k]]

(***************************************************************************)
(* State                                                                   *)
(***************************************************************************)
\* No command line has been given yet.
NotInvoked == <<Null>>

NoPrev == [ran |-> FALSE, ok |-> FALSE, inputs |-> {}, src |-> <<>>, docs |-> <<>>]

\* The exit status and error output of a process that has not exited.
Running == [code |-> -1, msg |-> "none"]

IdleProc ==
    [pc |-> "idle", inputs |-> {}, src0 |-> <<>>, pv |-> <<>>,
     provQ |-> <<>>, verQ |-> <<>>, archQ |-> <<>>,
     provider |-> Null, version |-> Null,
     version_data |-> <<>>, index_data |-> <<>>,
     h1 |-> Null, found |-> Null, ret |-> None, ops |-> <<>>, prev |-> NoPrev,
     denied |-> FALSE, exit |-> Running]

Store(r) == dest[storeOf[r]]

Stopped(r) == proc[r].pc \in {"idle", "done", "failed"}

\* One record per store or fingerprint operation of a run.
Op(r, op, key, path, body, meta) ==
    [op |-> op, key |-> key, path |-> path, body |-> body, meta |-> meta,
     provider |-> proc[r].provider, version |-> proc[r].version]

IsWrite(o) == o.op \in {"upload", "copy", "put_version", "put_index"}
IsDocWrite(o) == o.op \in {"put_version", "put_index"}
IsCopy(o) == o.op \in {"upload", "copy"}

Writes(ops) == SelectSeq(ops, IsWrite)
DocWrites(ops) == SelectSeq(ops, IsDocWrite)
Copies(ops) == SelectSeq(ops, IsCopy)

\* Command lines: the local entry point takes any list of existing files,
\* the remote one lists the release bucket (every key once, in some order).
RECURSIVE SeqsUpTo(_, _)
SeqsUpTo(S, n) ==
    IF n = 0 THEN {<<>>}
    ELSE LET shorter == SeqsUpTo(S, n - 1)
         IN  shorter \cup {Append(q, x) : q \in shorter, x \in S}

IsPermutation(a, b) ==
    /\ Len(a) = Len(b)
    /\ \A x \in SeqToSet(a) \cup SeqToSet(b) :
          Cardinality({i \in 1..Len(a) : a[i] = x}) = Cardinality({i \in 1..Len(b) : b[i] = x})

Listings(S) == {q \in SeqsUpTo(S, Cardinality(S)) : Len(q) = Cardinality(S) /\ SeqToSet(q) = S}

InputLists ==
    IF variant = "local" THEN SeqsUpTo(DOMAIN src, MaxInputs)
    ELSE Listings(DOMAIN src)

\* Destination states a run may find: empty, or an earlier mirror holding one
\* archive with a stale fingerprint, one uploaded before fingerprints
\* existed, and documents of that time.
OldArchive(meta, body) == [body |-> body, meta |-> meta, ctype |-> "application/zip"]
OldDoc == [body |-> <<"old">>, meta |-> NoMeta, ctype |-> "application/json"]
OldMirror(v) ==
    LET k1 == MirrorKey(v, Parse(v, A1))
        k3 == MirrorKey(v, Parse(v, A3))
        s1 == PutObject(<<>>, k1, OldArchive(Fingerprint(<<"c2">>), <<"c2">>))
        s2 == PutObject(s1, k3, OldArchive(NoMeta, <<"c2">>))
        s3 == PutObject(s2, VersionKey(<<"1">>), OldDoc)
    IN  PutObject(s3, IndexKey, OldDoc)
InitStores(v) == {<<>>, OldMirror(v)}

InitSources ==
    {[p \in F |-> InitContent(p)] : F \in {G \in SUBSET Candidates : Cardinality(G) <= MaxFiles}}

InitCommon ==
    /\ variant \in {"local", "remote"}
    /\ src \in InitSources
    /\ proc = [r \in Procs |-> IdleProc]
    /\ runs = [r \in Procs |-> 0]
    /\ changes = 0
    /\ argvs = [r \in Procs |-> NotInvoked]
    /\ parseIn = <<>>
    /\ parseOut = [done |-> FALSE, local |-> None, remote |-> None]
    /\ keyIn = NoKeyIn
    /\ keyOut = NoKeys

Init ==
    /\ InitCommon
    /\ active = {1}
    /\ storeOf = [r \in Procs |-> 1]
    /\ \E st \in InitStores(variant) : dest = [s \in Stores |-> st]

SetProc(r, rec) == proc' = [proc EXCEPT ![r] = rec]

(***************************************************************************)
(* Exceptions and the __main__ block                                       *)
(***************************************************************************)
\* The class of the exception a failing operation raises: the usage check,
\* check_bucket_access and dirhash raise MirrorError, a failing store call
\* raises the client library's own error.
Raised(what) ==
    IF what \in {"usage", "head_bucket", "dirhasher"} THEN "MirrorError" ELSE "ClientError"

\* sys.exit(0) after main(); a MirrorError is printed on one line before
\* sys.exit(1); any other exception is not caught: the interpreter prints
\* its traceback and the exit status is 1.
MainBlock(exc) ==
    IF exc = "none" THEN [code |-> 0, msg |-> "none"]
    ELSE IF exc = "MirrorError" THEN [code |-> 1, msg |-> "line"]
    ELSE [code |-> 1, msg |-> "traceback"]

RaiseOp(p, what, key, path) ==
    [op |-> "raise", key |-> key, path |-> path, body |-> <<what>>, meta |-> Null,
     provider |-> p.provider, version |-> p.version]

\* Mutant: the exception is logged and swallowed.
RaiseSwallowed(p, what, key, path) ==
    [p EXCEPT !.ops = Append(p.ops, RaiseOp(p, what, key, path))]

\* An exception leaves main(): the run stops where it is.
Raise(p, what, key, path) ==
    [p EXCEPT !.pc = "failed", !.exit = MainBlock(Raised(what)),
              !.ops = Append(p.ops, RaiseOp(p, what, key, path))]

Summary(p) ==
    IF p.pc = "idle" THEN p.prev
    ELSE [ran |-> TRUE, ok |-> p.pc = "done", inputs |-> p.inputs,
          src |-> p.src0, docs |-> DocWrites(p.ops)]

(***************************************************************************)
(* main(): start, check_bucket_access and the gathering loop               *)
(***************************************************************************)
\* len(sys.argv) < 3 in the local entry point: no archive was named.
UsageError(argv) == variant = "local" /\ argv = <<>>

\* Mutant: the ClientError of head_bucket is ignored.
CheckBucketAccessIgnored(accessible) == "ok"

\* check_bucket_access on the mirror bucket (and, remote, on the release
\* bucket first): head_bucket succeeds or a MirrorError is raised.
CheckBucketAccess(accessible) == IF accessible THEN "ok" ELSE "MirrorError"

\* A new process image.
Fresh(r) == [IdleProc EXCEPT !.src0 = src, !.prev = Summary(proc[r])]

Main(r, argv, accessible) ==
    /\ r \in active
    /\ Stopped(r)
    /\ runs[r] < MaxRuns
    /\ IF UsageError(argv)
       THEN SetProc(r, Raise(Fresh(r), "usage", Null, Null))
       ELSE IF CheckBucketAccess(accessible) # "ok"
       THEN SetProc(r, Raise([Fresh(r) EXCEPT !.denied = TRUE], "head_bucket", Null, Null))
       ELSE SetProc(r, [Fresh(r) EXCEPT
                !.pc = "provider", !.inputs = SeqToSet(argv),
                !.denied = ~accessible,
                !.pv = Gather(variant, argv, <<>>),
                !.provQ = SortedStrs(DOMAIN Gather(variant, argv, <<>>))])
    /\ runs' = [runs EXCEPT ![r] = @ + 1]
    /\ UNCHANGED <<variant, src, dest, storeOf, active, changes, argvs, parseIn, parseOut, keyIn, keyOut>>

\* An invocation with any command line (local) or bucket listing (remote).
StartRun(r) == \E argv \in InputLists : Main(r, argv, TRUE)

\* The same invocation while a bucket it names cannot be accessed.
StartDenied(r) == \E argv \in InputLists : ~UsageError(argv) /\ Main(r, argv, FALSE)

\* The listing of the release bucket fails (remote only).
ListFailed(r) ==
    /\ variant = "remote"
    /\ r \in active
    /\ Stopped(r)
    /\ runs[r] < MaxRuns
    /\ SetProc(r, Raise(Fresh(r), "list", Null, Null))
    /\ runs' = [runs EXCEPT ![r] = @ + 1]
    /\ UNCHANGED <<variant, src, dest, storeOf, active, changes, argvs, parseIn, parseOut, keyIn, keyOut>>

\* for provider in sorted(provider_versions): ...   (or the end of main)
NextProvider(r) ==
    /\ proc[r].pc = "provider"
    /\ LET p == proc[r]
       IN  IF p.provQ = <<>>
           THEN SetProc(r, [p EXCEPT !.pc = "done", !.provider = Null, !.version = Null,
                                     !.exit = MainBlock("none")])
           ELSE SetProc(r, [p EXCEPT
                    !.pc = "version",
                    !.provider = Head(p.provQ),
                    !.provQ = Tail(p.provQ),
                    !.verQ = SortedStrs(DOMAIN p.pv[Head(p.provQ)]),
                    !.index_data = <<>>])
    /\ UNCHANGED <<variant, src, dest, storeOf, active, runs, changes, argvs, parseIn, parseOut, keyIn, keyOut>>

\* Mutant: version_data is created once, outside the version loop.
KeptVersionData(p) == p.version_data

\* version_data = {'archives': {}}
FreshVersionData(p) == <<>>

\* for version in sorted(versions): ...
NextVersion(r) ==
    /\ proc[r].pc = "version"
    /\ proc[r].verQ # <<>>
    /\ LET p == proc[r]
       IN  SetProc(r, [p EXCEPT
               !.pc = "archive",
               !.version = Head(p.verQ),
               !.verQ = Tail(p.verQ),
               !.archQ = SortedArchives(p.pv[p.provider][Head(p.verQ)]),
               !.version_data = FreshVersionData(p)])
    /\ UNCHANGED <<variant, src, dest, storeOf, active, runs, changes, argvs, parseIn, parseOut, keyIn, keyOut>>

(***************************************************************************)
(* copy_archive                                                            *)
(***************************************************************************)
Exists(store, key) == key \in DOMAIN store

\* obj.load(): the status of the HEAD request on the mirror object.
Load(store, key, fault) ==
    IF fault THEN "500" ELSE IF key \in DOMAIN store THEN "200" ELSE "404"

\* Mutant: every ClientError counts as "not there".
ObjectExistsAnyError(status) == IF status = "200" THEN "True" ELSE "False"

\* object_exists: True, False on a 404, and any other error is re-raised.
ObjectExists(status) ==
    IF status = "200" THEN "True" ELSE IF status = "404" THEN "False" ELSE "raise"

\* Exit codes of the dirhasher program.
DirhasherCodes == {0, 1}

\* Mutant: a header that every object carries is read instead.
DirhashAnyHeader(store, key) == <<"h", "1">>

\* mirror_obj.metadata.get(DIRHASH_METADATA)
Dirhash(store, key) == store[key].meta

\* What a HEAD of the mirror object shows of its dirhash header.
Found(store, key) == IF Exists(store, key) THEN Dirhash(store, key) ELSE NoMeta

\* Mutant: the local variant trusts any dirhash header.
CopyRequiredLocalAny(store, key, h1) ==
    ~(Exists(store, key) /\ Dirhash(store, key) # NoMeta)

\* Local: skip only when the mirror object carries the fresh dirhash.
CopyRequiredLocal(store, key, h1) ==
    ~(Exists(store, key) /\ Dirhash(store, key) = h1)

\* Mutant: the cache check is missing.
CopyRequiredRemoteAlways(store, key) == TRUE

\* Remote: skip whenever the mirror object carries a dirhash at all.
CopyRequiredRemote(store, key) ==
    ~(Exists(store, key) /\ Dirhash(store, key) # NoMeta)

\* Mutant: entries are keyed by the os alone.
WithEntryByOs(p, a, h) ==
    DictSet(p.version_data, a.os, [hashes |-> <<h>>, url |-> Url(variant, a)])

\* version_data['archives'][os_arch] = {'hashes': [h1], 'url': ...}
WithEntry(p, a, h) ==
    DictSet(p.version_data, OsArch(a), [hashes |-> <<h>>, url |-> Url(variant, a)])

\* copy_archive returns (h, copied) and main records the entry.
Returned(p, a, h, copied, found, ops) ==
    [p EXCEPT !.pc = "archive", !.archQ = Tail(p.archQ), !.h1 = Null, !.found = Null,
              !.version_data = WithEntry(p, a, h),
              !.ret = [path |-> a.path, key |-> MirrorKey(variant, a), h |-> h,
                       copied |-> copied, found |-> found],
              !.ops = Append(ops, [op |-> "ret", key |-> MirrorKey(variant, a), path |-> a.path,
                                   body |-> Null, meta |-> h,
                                   provider |-> p.provider, version |-> p.version])]

\* The cache lookup: local fingerprints the file first, then both variants
\* HEAD the mirror object and decide.  rc is the exit code of dirhasher
\* (local only), fault whether the HEAD fails with something other than 404.
LookupWith(r, rc, fault) ==
    /\ proc[r].pc = "archive"
    /\ proc[r].archQ # <<>>
    /\ LET p == proc[r]
            a == Head(p.archQ)
            key == MirrorKey(variant, a)
            st == Store(r)
            status == Load(st, key, fault)
            exists == ObjectExists(status)
            found == IF exists = "True" THEN Found(st, key) ELSE NoMeta
            head == Op(r, "head", key, a.path, <<status>>, Null)
        IN  IF variant = "local"
            THEN LET h1 == Fingerprint(src[a.path])
                     ops == p.ops \o <<Op(r, "hash", Null, a.path, Null, h1), head>>
                 IN  IF rc # 0
                     THEN ~fault /\ SetProc(r, Raise(p, "dirhasher", Null, a.path))
                     ELSE IF exists = "raise"
                     THEN SetProc(r, Raise([p EXCEPT !.ops = ops], "head", key, a.path))
                     ELSE IF exists = "False" \/ CopyRequiredLocal(st, key, h1)
                     THEN SetProc(r, [p EXCEPT !.pc = "transfer", !.h1 = h1,
                                                 !.found = found, !.ops = ops])
                     ELSE SetProc(r, Returned(p, a, h1, FALSE, found, ops))
            ELSE /\ rc = 0
                 /\ IF exists = "raise"
                    THEN SetProc(r, Raise([p EXCEPT !.ops = Append(p.ops, head)],
                                          "head", key, a.path))
                    ELSE IF exists = "False" \/ CopyRequiredRemote(st, key)
                    THEN SetProc(r, [p EXCEPT !.pc = "transfer", !.found = found,
                                                !.ops = Append(p.ops, head)])
                    ELSE SetProc(r, Returned(p, a, Dirhash(st, key), FALSE, found,
                                             Append(p.ops, head)))
    /\ UNCHANGED <<variant, src, dest, storeOf, active, runs, changes, argvs, parseIn, parseOut, keyIn, keyOut>>

Lookup(r) == \E rc \in DirhasherCodes, fault \in BOOLEAN : LookupWith(r, rc, fault)

\* Mutant: the Metadata argument is left out.
UploadedNoMetadata(content, h1) ==
    [body |-> content, meta |-> NoMeta, ctype |-> "application/zip"]

\* The mirror object a transfer leaves: the source's content with the
\* dirhash header set to h1.
Uploaded(content, h1) ==
    [body |-> content, meta |-> h1, ctype |-> "application/zip"]

\* Mutant: the header read before the transfer is returned.
TransferResultCached(h1, found) == found

\* return h1, True
TransferResult(h1, found) == h1

\* upload_file (local) / download, dirhash and copy_from (remote).
Transfer(r) ==
    /\ proc[r].pc = "transfer"
    /\ LET p == proc[r]
           a == Head(p.archQ)
           key == MirrorKey(variant, a)
           h1 == IF variant = "local" THEN p.h1 ELSE Fingerprint(src[a.path])
           obj == Uploaded(src[a.path], h1)
           ops == IF variant = "local"
                  THEN Append(p.ops, Op(r, "upload", key, a.path, obj.body, h1))
                  ELSE p.ops \o <<Op(r, "hash", Null, a.path, Null, h1),
                                  Op(r, "copy", key, a.path, obj.body, h1)>>
       IN  /\ dest' = [dest EXCEPT ![storeOf[r]] = PutObject(@, key, obj)]
           /\ SetProc(r, Returned(p, a, TransferResult(h1, p.found), TRUE, p.found, ops))
    /\ UNCHANGED <<variant, src, storeOf, active, runs, changes, argvs, parseIn, parseOut, keyIn, keyOut>>

(***************************************************************************)
(* Documents                                                               *)
(***************************************************************************)
\* version_data = {'archives': {}} at the top of each version.
VersionBody(p) == Dumps("archives", p.version_data)
IndexBody(p) == Dumps("versions", p.index_data)

JsonObject(body) == [body |-> body, meta |-> NoMeta, ctype |-> "application/json"]

\* Mutant: the document is put inside the archive loop.
PutVersionEarly(r) ==
    /\ proc[r].pc = "archive"
    /\ LET p == proc[r]
           key == VersionKey(p.version)
           body == Dumps("archives", p.version_data)
       IN  /\ dest' = [dest EXCEPT ![storeOf[r]] =
                          PutObject(@, key, [body |-> body, meta |-> NoMeta,
                                             ctype |-> "application/json"])]
           /\ SetProc(r, [p EXCEPT
                  !.pc = "version",
                  !.index_data = DictSet(p.index_data, p.version, <<>>),
                  !.ops = Append(p.ops, Op(r, "put_version", key, Null, body, NoMeta))])
    /\ UNCHANGED <<variant, src, storeOf, active, runs, changes, argvs, parseIn, parseOut, keyIn, keyOut>>

PutVersion(r) ==
    /\ proc[r].pc = "archive"
    /\ proc[r].archQ = <<>>
    /\ LET p == proc[r]
           key == VersionKey(p.version)
           body == VersionBody(p)
       IN  /\ dest' = [dest EXCEPT ![storeOf[r]] = PutObject(@, key, JsonObject(body))]
           /\ SetProc(r, [p EXCEPT
                  !.pc = "version",
                  !.index_data = DictSet(p.index_data, p.version, <<>>),
                  !.ops = Append(p.ops, Op(r, "put_version", key, Null, body, NoMeta))])
    /\ UNCHANGED <<variant, src, storeOf, active, runs, changes, argvs, parseIn, parseOut, keyIn, keyOut>>

PutIndex(r) ==
    /\ proc[r].pc = "version"
    /\ proc[r].verQ = <<>>
    /\ LET p == proc[r]
           body == IndexBody(p)
       IN  /\ dest' = [dest EXCEPT ![storeOf[r]] = PutObject(@, IndexKey, JsonObject(body))]
           /\ SetProc(r, [p EXCEPT
                  !.pc = "provider",
                  !.ops = Append(p.ops, Op(r, "put_index", IndexKey, Null, body, NoMeta))])
    /\ UNCHANGED <<variant, src, storeOf, active, runs, changes, argvs, parseIn, parseOut, keyIn, keyOut>>

\* The operations that can fail where the run stands: the transfer of an
\* archive (upload_file; or download_file, dirhasher, copy_from), the put of
\* a version document, the put of an index document.
AtIO(p) ==
    \/ p.pc = "transfer"
    \/ p.pc = "archive" /\ p.archQ = <<>>
    \/ p.pc = "version" /\ p.verQ = <<>>

FaultsAt(p) ==
    IF p.pc = "transfer"
    THEN IF variant = "local" THEN {"upload"} ELSE {"download", "dirhasher", "copy"}
    ELSE IF p.pc = "archive" THEN {"put_version"}
    ELSE {"put_index"}

FaultKey(p) ==
    IF p.pc = "transfer" THEN MirrorKey(variant, Head(p.archQ))
    ELSE IF p.pc = "archive" THEN VersionKey(p.version)
    ELSE IndexKey

FaultPath(p) == IF p.pc = "transfer" THEN Head(p.archQ).path ELSE Null

\* dirhasher exits non-zero or a store call fails: the exception leaves
\* main() and nothing further is done.
Fail(r) ==
    /\ AtIO(proc[r])
    /\ \E what \in FaultsAt(proc[r]) :
          SetProc(r, Raise(proc[r], what, FaultKey(proc[r]), FaultPath(proc[r])))
    /\ UNCHANGED <<variant, src, dest, storeOf, active, runs, changes, argvs, parseIn, parseOut, keyIn, keyOut>>

(***************************************************************************)
(* Environment: the sources change only while no run is in progress        *)
(***************************************************************************)
ChangeSource(path, c) ==
    /\ \A r \in Procs : Stopped(r)
    /\ \E r \in Procs : runs[r] > 0
    /\ changes < MaxChanges
    /\ path \in DOMAIN src
    /\ src[path] # c
    /\ src' = [src EXCEPT ![path] = c]
    /\ changes' = changes + 1
    /\ UNCHANGED <<variant, dest, storeOf, active, proc, runs, argvs, parseIn, parseOut, keyIn, keyOut>>

RemoveSource(path) ==
    /\ \A r \in Procs : Stopped(r)
    /\ \E r \in Procs : runs[r] > 0
    /\ changes < MaxChanges
    /\ path \in DOMAIN src
    /\ src' = [q \in (DOMAIN src) \ {path} |-> src[q]]
    /\ changes' = changes + 1
    /\ UNCHANGED <<variant, dest, storeOf, active, proc, runs, argvs, parseIn, parseOut, keyIn, keyOut>>

Next ==
    \/ \E r \in Procs : StartRun(r)
    \/ \E r \in Procs : StartDenied(r)
    \/ \E r \in Procs : ListFailed(r)
    \/ \E r \in Procs : NextProvider(r)
    \/ \E r \in Procs : NextVersion(r)
    \/ \E r \in Procs : Lookup(r)
    \/ \E r \in Procs : Transfer(r)
    \/ \E r \in Procs : PutVersion(r)
    \/ \E r \in Procs : PutIndex(r)
    \/ \E r \in Procs : Fail(r)
    \/ \E path \in Candidates, c \in Contents : ChangeSource(path, c)
    \/ \E path \in Candidates : RemoveSource(path)

Spec == Init /\ [][Next]_vars

(***************************************************************************)
(* Archive.parse on its own: Init draws a path, the action parses it with  *)
(* both variants.                                                          *)
(***************************************************************************)
StemChars == {"a", "_", "."}
ParseDirs == {<<>>, Dir("x")}
ParseExts == {ZipExt, <<".", "z">>, <<>>}
ParseInputs ==
    {d \o stem \o e : d \in ParseDirs, stem \in SeqsUpTo(StemChars, MaxStem), e \in ParseExts}

InitParse ==
    /\ variant = "local"
    /\ src = <<>>
    /\ dest = [s \in Stores |-> <<>>]
    /\ storeOf = [r \in Procs |-> 1]
    /\ active = {}
    /\ proc = [r \in Procs |-> IdleProc]
    /\ runs = [r \in Procs |-> 0]
    /\ changes = 0
    /\ argvs = [r \in Procs |-> NotInvoked]
    /\ parseIn \in ParseInputs
    /\ parseOut = [done |-> FALSE, local |-> None, remote |-> None]
    /\ keyIn = NoKeyIn
    /\ keyOut = NoKeys

DoParse ==
    /\ ~parseOut.done
    /\ parseOut' = [done |-> TRUE,
                    local |-> Parse("local", parseIn),
                    remote |-> Parse("remote", parseIn)]
    /\ UNCHANGED <<variant, src, dest, storeOf, active, proc, runs, changes, argvs, parseIn, keyIn, keyOut>>

NextParse == DoParse

SpecParse == InitParse /\ [][NextParse]_vars

(***************************************************************************)
(* The destination keys on their own: Init draws a mirror location         *)
(* argument and an archive, the action builds the keys of both variants.   *)
(***************************************************************************)
ArgChars == {"b", "m", "/"}
\* bucket b alone, or b followed by further text.
DestArgs == {<<"b">> \o t : t \in SeqsUpTo(ArgChars, MaxArg - 1)}
KeyPaths == {x \in Candidates : Parse("local", x) # None}

\* The keys main() writes for one archive under one mirror location.
KeysOf(v, arg, path) ==
    LET out_prefix == ParseBucketAndPrefix(arg)[2]
        a == Parse(v, path)
    IN  [artifact |-> MirrorKeyAt(out_prefix, v, a),
         version |-> VersionKeyAt(out_prefix, a.version),
         index |-> IndexKeyAt(out_prefix)]

InitKeys ==
    /\ variant = "local"
    /\ src = <<>>
    /\ dest = [s \in Stores |-> <<>>]
    /\ storeOf = [r \in Procs |-> 1]
    /\ active = {}
    /\ proc = [r \in Procs |-> IdleProc]
    /\ runs = [r \in Procs |-> 0]
    /\ changes = 0
    /\ argvs = [r \in Procs |-> NotInvoked]
    /\ parseIn = <<>>
    /\ parseOut = [done |-> FALSE, local |-> None, remote |-> None]
    /\ keyIn \in [arg : DestArgs, path : KeyPaths]
    /\ keyOut = NoKeys

DoKeys ==
    /\ ~keyOut.done
    /\ keyOut' = [done |-> TRUE,
                  local |-> KeysOf("local", keyIn.arg, keyIn.path),
                  remote |-> KeysOf("remote", keyIn.arg, keyIn.path)]
    /\ UNCHANGED <<variant, src, dest, storeOf, active, proc, runs, changes, argvs,
                   parseIn, parseOut, keyIn>>

NextKeys == DoKeys

SpecKeys == InitKeys /\ [][NextKeys]_vars

(***************************************************************************)
(* Two invocations of one entry point, each against its own copy of the    *)
(* same destination, given the same inputs in two orders.                  *)
(***************************************************************************)
Pair == {1, 2}

InitPerm ==
    /\ InitCommon
    /\ active = Pair
    /\ storeOf = [r \in Procs |-> IF r = 2 THEN 2 ELSE 1]
    /\ \E st \in InitStores(variant) : dest = [s \in Stores |-> st]

ArgvPairs ==
    {f \in {[r \in Procs |-> IF r = 1 THEN a ELSE IF r = 2 THEN b ELSE NotInvoked] :
                a \in InputLists, b \in InputLists} :
        IsPermutation(f[1], f[2])}

\* The operator types the two command lines.
Invoke ==
    /\ \A r \in Procs : proc[r].pc = "idle" /\ runs[r] = 0
    /\ argvs = [r \in Procs |-> NotInvoked]
    /\ argvs' \in ArgvPairs
    /\ UNCHANGED <<variant, src, dest, storeOf, active, proc, runs, changes, parseIn, parseOut, keyIn, keyOut>>

StartOnce(r) ==
    /\ runs[r] = 0
    /\ argvs[r] # NotInvoked
    /\ Main(r, argvs[r], TRUE)

NextPerm ==
    \/ Invoke
    \/ \E r \in Procs : StartOnce(r)
    \/ \E r \in Procs : NextProvider(r)
    \/ \E r \in Procs : NextVersion(r)
    \/ \E r \in Procs : LookupWith(r, 0, FALSE)
    \/ \E r \in Procs : Transfer(r)
    \/ \E r \in Procs : PutVersion(r)
    \/ \E r \in Procs : PutIndex(r)

SpecPerm == InitPerm /\ [][NextPerm]_vars

(***************************************************************************)
(* Two invocations of one entry point with the same command line racing    *)
(* on one destination (processes 1 and 2, store 1), and the same           *)
(* invocation on its own against a copy of that destination (process 3,    *)
(* store 2).  The lone run is scheduled first; the two others interleave   *)
(* their store operations freely.  No operation fails here.                *)
(***************************************************************************)
InitConc ==
    /\ InitCommon
    /\ active = Procs
    /\ storeOf = [r \in Procs |-> IF r = 3 THEN 2 ELSE 1]
    /\ \E st \in InitStores(variant) : dest = [s \in Stores |-> st]

InvokeSame ==
    /\ \A r \in Procs : proc[r].pc = "idle" /\ runs[r] = 0
    /\ argvs = [r \in Procs |-> NotInvoked]
    /\ \E a \in InputLists : argvs' = [r \in Procs |-> a]
    /\ UNCHANGED <<variant, src, dest, storeOf, active, proc, runs, changes, parseIn, parseOut, keyIn, keyOut>>

StartConc(r) ==
    /\ r \in Pair => proc[3].pc = "done"
    /\ StartOnce(r)

NextConc ==
    \/ InvokeSame
    \/ \E r \in Procs : StartConc(r)
    \/ \E r \in Procs : NextProvider(r)
    \/ \E r \in Procs : NextVersion(r)
    \/ \E r \in Procs : LookupWith(r, 0, FALSE)
    \/ \E r \in Procs : Transfer(r)
    \/ \E r \in Procs : PutVersion(r)
    \/ \E r \in Procs : PutIndex(r)

SpecConc == InitConc /\ [][NextConc]_vars

(***************************************************************************)
(* Properties                                                              *)
(***************************************************************************)
Variants == {"local", "remote"}

\* The archives of an input set, as main() gathers them.
ParsedOf(inputs) == {Parse(variant, x) : x \in inputs} \ {None}

ArchivesOf(inputs, provider, version) ==
    {a \in ParsedOf(inputs) : a.provider = provider /\ a.version = version}

OpsOf(r) == proc[r].ops
OpSet(ops) == {ops[i] : i \in 1..Len(ops)}

\* The members of a written document, and their keys.
Items(body) == body[2]
ItemKeys(body) == {Items(body)[i][1] : i \in 1..Len(Items(body))}

SameRunAgain(p) ==
    /\ p.pc = "done"
    /\ p.prev.ran
    /\ p.prev.ok
    /\ p.prev.inputs = p.inputs
    /\ p.prev.src = p.src0

\* C1: a successful run repeated with the same inputs and unchanged sources
\* copies nothing and writes the same version and index documents.
C1_Idempotent ==
    \A r \in Procs :
        SameRunAgain(proc[r]) =>
            /\ Copies(OpsOf(r)) = <<>>
            /\ DocWrites(OpsOf(r)) = proc[r].prev.docs

\* C2: local copy_archive with a fresh fingerprint h that is not the one on
\* the mirror object (or no object, or no fingerprint there) uploads: the
\* object then carries h and the source content, and (h, True) is returned.
C2_LocalConverges ==
    \A r \in Procs :
        LET p == proc[r]
        IN  (variant = "local" /\ p.ret # None /\ p.ret.found # p.ret.h) =>
                /\ p.ret.copied
                /\ p.ret.h = Fingerprint(p.src0[p.ret.path])
                /\ Exists(Store(r), p.ret.key)
                /\ Store(r)[p.ret.key].meta = p.ret.h
                /\ Store(r)[p.ret.key].body = p.src0[p.ret.path]

C2_Witness ==
    /\ variant = "local"
    /\ proc[1].ret # None
    /\ proc[1].ret.found # Null
    /\ proc[1].ret.found # proc[1].ret.h
    /\ proc[1].ret.copied
    /\ dest[1][proc[1].ret.key].meta = proc[1].ret.h

C4_FullReplacement ==
    \A r \in Procs : \A o \in OpSet(DocWrites(OpsOf(r))) :
        \A i \in 1..Len(Items(o.body)) :
            LET e == Items(o.body)[i]
            IN  IF o.op = "put_version"
                THEN \E a \in ArchivesOf(proc[r].inputs, o.provider, o.version) :
                        OsArch(a) = e[1] /\ e[2].url = Url(variant, a)
                ELSE \E a \in ParsedOf(proc[r].inputs) :
                        a.provider = o.provider /\ a.version = e[1]

\* ... after an earlier run wrote, under the same key, an entry for an
\* archive that is no longer among the inputs.
C4_Witness ==
    /\ proc[1].pc = "done"
    /\ proc[1].prev.ran
    /\ proc[1].prev.ok
    /\ \E od \in OpSet(proc[1].prev.docs), o \in OpSet(DocWrites(OpsOf(1))) :
          /\ od.op = "put_version"
          /\ o.op = "put_version"
          /\ od.key = o.key
          /\ \E k \in ItemKeys(od.body) : k \notin ItemKeys(o.body)

AllDone == \A r \in active : proc[r].pc = "done"

WriteSet(r) ==
    {[key |-> o.key, body |-> o.body, meta |-> o.meta] : o \in OpSet(Writes(OpsOf(r)))}

IsJson(obj) == obj.ctype = "application/json"
Documents(store) == [k \in {x \in DOMAIN store : IsJson(store[x])} |-> store[k].body]

\* C5: two runs given the same inputs in two orders, from equal destinations,
\* issue the same set of writes and leave identical documents.
C5_OrderIndependent ==
    AllDone =>
        /\ WriteSet(1) = WriteSet(2)
        /\ Documents(dest[1]) = Documents(dest[2])
        /\ dest[1] = dest[2]

C5_Witness ==
    /\ AllDone
    /\ argvs[1] # argvs[2]
    /\ Copies(OpsOf(1)) # <<>>
    /\ \E o \in OpSet(DocWrites(OpsOf(1))) : o.op = "put_version" /\ Len(Items(o.body)) = 2

HasZip(path) == EndsWith(LastSegment(path), ZipExt)
Stem(path) == SubSeq(LastSegment(path), 1, Len(LastSegment(path)) - 4)

\* The positions of the first three underscores of a stem with at least three.
Cuts(stem) ==
    LET us == Positions(stem, "_")
        i == Min(us)
        j == Min(us \ {i})
        k == Min(us \ {i, j})
    IN  <<i, j, k>>

\* The stem, cut at its first three underscores, gives four non-empty parts.
SplitsInFour(path) ==
    /\ HasZip(path)
    /\ LET stem == Stem(path)
           c == Cuts(stem)
       IN  /\ Cardinality(Positions(stem, "_")) >= 3
           /\ c[1] > 1
           /\ c[2] > c[1] + 1
           /\ c[3] > c[2] + 1
           /\ c[3] < Len(stem)

\* The stem is exactly four non-empty parts with an underscore between them.
ExactlyFour(path) ==
    /\ SplitsInFour(path)
    /\ Cardinality(Positions(Stem(path), "_")) = 3

FieldsFromCuts(a, path) ==
    LET stem == Stem(path)
        c == Cuts(stem)
    IN  /\ a.path = path
        /\ a.file_name = LastSegment(path)
        /\ a.provider = SubSeq(stem, 1, c[1] - 1)
        /\ a.version = SubSeq(stem, c[1] + 1, c[2] - 1)
        /\ a.os = SubSeq(stem, c[2] + 1, c[3] - 1)
        /\ a.arch = SubSeq(stem, c[3] + 1, Len(stem))

\* C6 as claimed: parse yields a record exactly for names whose stem has
\* exactly four non-empty underscore-delimited components, which are its fields.
C6_ExactlyFourParts ==
    parseOut.done =>
        \A v \in Variants :
            /\ (parseOut[v] # None) <=> ExactlyFour(parseIn)
            /\ (parseOut[v] # None) => FieldsFromCuts(parseOut[v], parseIn)

\* C6 amended: parse (both variants) yields a record exactly when the final
\* segment ends with .zip and the stem, cut at its first three underscores,
\* gives four non-empty parts; the fields are those parts, the last of which
\* may contain further underscores.
C6_FirstThreeCuts ==
    parseOut.done =>
        \A v \in Variants :
            /\ (parseOut[v] # None) <=> SplitsInFour(parseIn)
            /\ (parseOut[v] # None) => FieldsFromCuts(parseOut[v], parseIn)

C6_Witness ==
    /\ parseOut.done
    /\ parseOut.local # None
    /\ parseOut.remote # None
    /\ Positions(parseOut.local.arch, "_") # {}
    /\ Positions(parseIn, "/") # {}

\* C7: a version document has one entry per os_arch of that version's input
\* archives, each with a single hash returned by the sync of an archive with
\* that os_arch and that archive's url; an index document maps exactly the
\* package's input versions to empty objects; a finished run has written one
\* of each for every version and package in the input.
VersionDocOK(r, i) ==
    LET o == OpsOf(r)[i]
        arts == ArchivesOf(proc[r].inputs, o.provider, o.version)
        items == Items(o.body)
    IN  /\ o.body[1] = "archives"
        /\ Cardinality(ItemKeys(o.body)) = Len(items)
        /\ ItemKeys(o.body) = {OsArch(a) : a \in arts}
        /\ \A n \in 1..Len(items) :
              /\ Len(items[n][2].hashes) = 1
              /\ \E j \in 1..(i - 1) : \E a \in arts :
                    /\ OpsOf(r)[j].op = "ret"
                    /\ OpsOf(r)[j].path = a.path
                    /\ OpsOf(r)[j].provider = o.provider
                    /\ OpsOf(r)[j].version = o.version
                    /\ OsArch(a) = items[n][1]
                    /\ items[n][2].hashes[1] = OpsOf(r)[j].meta
                    /\ items[n][2].url =
                          (IF variant = "local" THEN a.file_name
                           ELSE a.version \o <<"/">> \o a.file_name)

IndexDocOK(r, i) ==
    LET o == OpsOf(r)[i]
        items == Items(o.body)
    IN  /\ o.body[1] = "versions"
        /\ Cardinality(ItemKeys(o.body)) = Len(items)
        /\ ItemKeys(o.body) = {a.version : a \in {b \in ParsedOf(proc[r].inputs) : b.provider = o.provider}}
        /\ \A n \in 1..Len(items) : items[n][2] = <<>>

C7_DocumentContent ==
    \A r \in Procs :
        /\ \A i \in 1..Len(OpsOf(r)) :
              /\ OpsOf(r)[i].op = "put_version" => VersionDocOK(r, i)
              /\ OpsOf(r)[i].op = "put_index" => IndexDocOK(r, i)
        /\ proc[r].pc = "done" =>
              \A a \in ParsedOf(proc[r].inputs) :
                  /\ \E o \in OpSet(OpsOf(r)) :
                        o.op = "put_version" /\ o.provider = a.provider /\ o.version = a.version
                  /\ \E o \in OpSet(OpsOf(r)) :
                        o.op = "put_index" /\ o.provider = a.provider

C7_Witness ==
    /\ proc[1].pc = "done"
    /\ \E o \in OpSet(OpsOf(1)) : o.op = "put_version" /\ Len(Items(o.body)) = 2
    /\ \E o \in OpSet(OpsOf(1)) : o.op = "put_index" /\ Len(Items(o.body)) = 1

\* C8: after a successful run the destination holds, for each (package,
\* version) of the input, a version document with exactly that pair's
\* archives, and for each package an index document with exactly its versions.
StoredVersionDocFor(store, provider, version, inputs) ==
    /\ Exists(store, VersionKey(version))
    /\ LET body == store[VersionKey(version)].body
           arts == ArchivesOf(inputs, provider, version)
       IN  /\ body[1] = "archives"
           /\ {<<Items(body)[n][1], Items(body)[n][2].url>> : n \in 1..Len(Items(body))}
                 = {<<OsArch(a), Url(variant, a)>> : a \in arts}

StoredIndexDocFor(store, provider, inputs) ==
    \E k \in DOMAIN store :
        /\ IsJson(store[k])
        /\ store[k].body[1] = "versions"
        /\ ItemKeys(store[k].body) = {a.version : a \in {b \in ParsedOf(inputs) : b.provider = provider}}

C8_OneDocumentPerUnit ==
    \A r \in Procs :
        proc[r].pc = "done" =>
            \A a \in ParsedOf(proc[r].inputs) :
                /\ StoredVersionDocFor(Store(r), a.provider, a.version, proc[r].inputs)
                /\ StoredIndexDocFor(Store(r), a.provider, proc[r].inputs)

\* C9: an input that does not parse causes no store or fingerprint operation,
\* and a run given only such inputs neither fails nor performs any operation.
C9_MalformedExcluded ==
    \A r \in Procs :
        /\ \A o \in OpSet(OpsOf(r)) : o.path # Null => SplitsInFour(o.path)
        /\ (proc[r].inputs # {} /\ \A x \in proc[r].inputs : ~SplitsInFour(x)) =>
              /\ proc[r].pc \in {"provider", "done"}
              /\ OpsOf(r) = <<>>

C9_Witness ==
    /\ proc[1].pc = "done"
    /\ \E x \in proc[1].inputs : ~SplitsInFour(x)
    /\ \E x \in proc[1].inputs : SplitsInFour(x)
    /\ Copies(OpsOf(1)) # <<>>
    /\ DocWrites(OpsOf(1)) # <<>>

\* C10: no step of any run, finished or aborted, removes a key from a
\* destination store.
C10_KeysNeverShrink ==
    [][\A s \in Stores : (DOMAIN dest[s]) \subseteq (DOMAIN dest'[s])]_vars

\* ... a run after an aborted one, over a mirror that keeps an object the
\* run does not touch.
C10_Witness ==
    /\ proc[1].pc = "done"
    /\ proc[1].prev.ran
    /\ ~proc[1].prev.ok
    /\ Writes(OpsOf(1)) # <<>>
    /\ \E k \in DOMAIN dest[1] : \A o \in OpSet(Writes(OpsOf(1))) : o.key # k

LastOp(ops) == ops[Len(ops)]

\* C11: a run started while a bucket it names cannot be accessed ends at
\* once with the MirrorError of check_bucket_access: nothing is listed,
\* fingerprinted, copied or written, and the destination is as it was.
C11_DeniedRunDoesNothing ==
    [][\A r \in Procs :
          proc'[r].denied =>
              /\ proc'[r].pc = "failed"
              /\ proc'[r].inputs = {}
              /\ proc'[r].pv = <<>>
              /\ Len(proc'[r].ops) = 1
              /\ proc'[r].ops[1].op = "raise"
              /\ proc'[r].ops[1].body = <<"head_bucket">>
              /\ (proc'[r] # proc[r] => dest' = dest)]_vars

\* ... after an earlier run has filled the mirror.
C11_Witness ==
    /\ proc[1].denied
    /\ proc[1].pc = "failed"
    /\ proc[1].prev.ran
    /\ proc[1].prev.ok
    /\ proc[1].prev.docs # <<>>

\* The last write of a run to a key.
LastWriteTo(ops, key) ==
    ops[Max({i \in 1..Len(ops) : IsWrite(ops[i]) /\ ops[i].key = key})]

\* C12: when the fingerprint procedure or a store call fails, the run does
\* nothing after it (the exception is the last thing in its log and the run
\* has failed), and every key the run wrote before still holds what the run
\* last wrote there.
C12_AbortNoRollback ==
    \A r \in Procs :
        LET p == proc[r]
        IN  /\ \A i \in 1..Len(p.ops) :
                  p.ops[i].op = "raise" => (i = Len(p.ops) /\ p.pc = "failed")
            /\ p.pc = "failed" =>
                  /\ p.ops # <<>>
                  /\ LastOp(p.ops).op = "raise"
                  /\ \A o \in OpSet(Writes(p.ops)) :
                        /\ Exists(Store(r), o.key)
                        /\ Store(r)[o.key].body = LastWriteTo(p.ops, o.key).body
                        /\ Store(r)[o.key].meta = LastWriteTo(p.ops, o.key).meta

\* ... a failure at the second archive of a version, after the first one was
\* copied: the version document and the index are never written.
C12_Witness ==
    /\ proc[1].pc = "failed"
    /\ Copies(OpsOf(1)) # <<>>
    /\ DocWrites(OpsOf(1)) = <<>>
    /\ proc[1].archQ # <<>>
    /\ LastOp(OpsOf(1)).body \in {<<"dirhasher">>, <<"head">>, <<"upload">>, <<"copy">>}
    /\ LastOp(OpsOf(1)).path # Copies(OpsOf(1))[1].path

\* C13: a run that succeeds exits with status 0; a run that fails (usage,
\* inaccessible bucket, dirhasher failure, store error other than not-found)
\* exits with status 1 after printing a single-line message.
C13_ExitStatus ==
    \A r \in Procs :
        /\ proc[r].pc = "done" => proc[r].exit = [code |-> 0, msg |-> "none"]
        /\ proc[r].pc = "failed" => proc[r].exit = [code |-> 1, msg |-> "line"]

\* C14: a 404 from the existence check is not an error: the run goes on to
\* transfer that archive (remote: fingerprint, then copy); any other error of
\* the existence check ends the run there with that error.
C14_NotFoundRecoverable ==
    \A r \in Procs :
        LET ops == OpsOf(r)
        IN  \A i \in 1..Len(ops) :
                ops[i].op = "head" =>
                    /\ ops[i].body = <<"404">> =>
                          /\ i = Len(ops) => proc[r].pc = "transfer"
                          /\ i < Len(ops) =>
                                /\ ops[i + 1].path = ops[i].path
                                /\ ops[i + 1].op \in
                                      (IF variant = "local" THEN {"upload", "raise"}
                                       ELSE {"hash", "raise"})
                                /\ ops[i + 1].op = "raise" => ops[i + 1].body # <<"head">>
                          /\ (i + 1 < Len(ops) /\ variant = "remote") =>
                                /\ ops[i + 2].op = "copy"
                                /\ ops[i + 2].key = ops[i].key
                    /\ ops[i].body \notin {<<"404">>, <<"200">>} =>
                          /\ Len(ops) = i + 1
                          /\ ops[i + 1].op = "raise"
                          /\ ops[i + 1].body = <<"head">>
                          /\ proc[r].pc = "failed"
                          /\ proc[r].exit.code = 1

C14_Witness ==
    /\ proc[1].pc = "done"
    /\ \E i \in 1..(Len(OpsOf(1)) - 1) :
          /\ OpsOf(1)[i].op = "head"
          /\ OpsOf(1)[i].body = <<"404">>
          /\ OpsOf(1)[i + 1].op \in {"upload", "hash"}
          /\ Exists(dest[1], OpsOf(1)[i].key)

\* C15: a step in which copy_archive returns copied = False changes nothing
\* in the destination, and the fingerprint it returns is the one stored on
\* the mirror object.
C15_SkipTouchesNothing ==
    [][\A r \in Procs :
          (/\ proc'[r].ops # proc[r].ops
           /\ proc'[r].ops # <<>>
           /\ LastOp(proc'[r].ops).op = "ret"
           /\ ~proc'[r].ret.copied) =>
              /\ dest' = dest
              /\ Exists(Store(r), proc'[r].ret.key)
              /\ Store(r)[proc'[r].ret.key].meta = proc'[r].ret.h]_vars

C15_Witness ==
    /\ proc[1].ret # None
    /\ ~proc[1].ret.copied
    /\ OpsOf(1) # <<>>
    /\ LastOp(OpsOf(1)).op = "ret"
    /\ dest[1][proc[1].ret.key].body # proc[1].src0[proc[1].ret.path]

\* C16: in the log of a run, the put of a version document comes after the
\* sync of every input archive of that version has returned, the put of a
\* package's index comes after the put of each of its version documents,
\* packages and versions follow in lexicographic order, and a sync has
\* returned before the next one starts.
C16_WriteOrdering ==
    \A r \in Procs :
        LET ops == OpsOf(r)
            inputs == proc[r].inputs
        IN  \A i \in 1..Len(ops) :
                /\ ops[i].op = "put_version" =>
                      \A a \in ArchivesOf(inputs, ops[i].provider, ops[i].version) :
                          \E j \in 1..(i - 1) : ops[j].op = "ret" /\ ops[j].path = a.path
                /\ ops[i].op = "put_index" =>
                      \A a \in {b \in ParsedOf(inputs) : b.provider = ops[i].provider} :
                          \E j \in 1..(i - 1) :
                              /\ ops[j].op = "put_version"
                              /\ ops[j].provider = a.provider
                              /\ ops[j].version = a.version
                /\ \A j \in (i + 1)..Len(ops) :
                      /\ ops[i].provider # Null =>
                            /\ ~StrLess(ops[j].provider, ops[i].provider)
                            /\ ops[j].provider = ops[i].provider =>
                                  ~StrLess(ops[j].version, ops[i].version)
                      /\ (ops[i].op = "head" /\ ops[j].op = "head") =>
                            \E k \in (i + 1)..(j - 1) : ops[k].op = "ret"

\* ... a finished run over two versions of one package.
C16_Witness ==
    /\ proc[1].pc = "done"
    /\ \E i, j \in 1..Len(OpsOf(1)) :
          /\ i < j
          /\ OpsOf(1)[i].op = "put_version"
          /\ OpsOf(1)[j].op = "put_version"
          /\ OpsOf(1)[i].version # OpsOf(1)[j].version
    /\ LastOp(OpsOf(1)).op = "put_index"

\* C17: inputs with the same file name are one member of their version's
\* group, and a run looks up (and possibly copies) each destination artifact
\* key at most once.
C17_DuplicateCollapse ==
    \A r \in Procs :
        LET p == proc[r]
        IN  /\ \A pr \in DOMAIN p.pv : \A v \in DOMAIN p.pv[pr] :
                  \A a, b \in p.pv[pr][v] : a.file_name = b.file_name => a = b
            /\ \A i, j \in 1..Len(p.ops) :
                  (i < j /\ p.ops[i].op = "head" /\ p.ops[j].op = "head") =>
                      p.ops[i].key # p.ops[j].key

\* What follows the first slash of the mirror location argument.
AfterFirstSlash(arg) ==
    IF Positions(arg, "/") = {} THEN <<>>
    ELSE SubSeq(arg, Min(Positions(arg, "/")) + 1, Len(arg))

\* The prefix as a directory name: without its trailing slash, if any.
PrefixDir(pre) ==
    IF pre # <<>> /\ pre[Len(pre)] = "/" THEN SubSeq(pre, 1, Len(pre) - 1) ELSE pre

VersionOfName(path) ==
    LET c == Cuts(Stem(path))
    IN  SubSeq(Stem(path), c[1] + 1, c[2] - 1)

\* The three keys for archive path under the text lead.
Layout(v, lead, path) ==
    [artifact |-> IF v = "local" THEN lead \o LastSegment(path)
                  ELSE lead \o VersionOfName(path) \o <<"/">> \o LastSegment(path),
     version |-> lead \o VersionOfName(path) \o <<".", "j", "s", "o", "n">>,
     index |-> lead \o <<"i", "n", "d", "e", "x", ".", "j", "s", "o", "n">>]

\* The prefix directory followed by a slash; nothing for an empty prefix.
SlashLead(pre) == IF pre = <<>> THEN <<>> ELSE PrefixDir(pre) \o <<"/">>

\* C18 as claimed: for every output prefix the keys are {prefix}/{version}.json,
\* {prefix}/index.json and {prefix}/{fileName} (local) or
\* {prefix}/{version}/{fileName} (remote).
C18_SlashLayout ==
    keyOut.done =>
        \A v \in Variants :
            keyOut[v] = Layout(v, SlashLead(AfterFirstSlash(keyIn.arg)), keyIn.path)

\* C18 amended: the keys are the output prefix exactly as given on the command
\* line, immediately followed by {version}.json, index.json and {fileName}
\* (local) or {version}/{fileName} (remote); nothing else enters a key.
C18_PrefixConcat ==
    keyOut.done =>
        \A v \in Variants :
            keyOut[v] = Layout(v, AfterFirstSlash(keyIn.arg), keyIn.path)

\* ... for a prefix that does not end with a slash.
C18_Witness ==
    /\ keyOut.done
    /\ AfterFirstSlash(keyIn.arg) # <<>>
    /\ PrefixDir(AfterFirstSlash(keyIn.arg)) = AfterFirstSlash(keyIn.arg)
    /\ keyOut.local.artifact # keyOut.remote.artifact
    /\ keyOut.local.version = keyOut.remote.version

\* Every entry of a version document names, by its url, an object of the
\* store whose dirhash header is the entry's single hash.
EntriesMatch(store, body) ==
    \A n \in 1..Len(Items(body)) :
        LET e == Items(body)[n][2]
            key == OutPrefix \o e.url
        IN  /\ Len(e.hashes) = 1
            /\ Exists(store, key)
            /\ store[key].meta = e.hashes[1]

\* C19: right after a run has put a version document, and for every version
\* document of a run that has finished, each entry's url names an object in
\* the destination whose dirhash header is the entry's hash; every object a
\* run has copied carries a dirhash header.
C19_DocumentsMatchStore ==
    \A r \in Procs :
        LET ops == OpsOf(r)
        IN  /\ (ops # <<>> /\ LastOp(ops).op = "put_version") =>
                  EntriesMatch(Store(r), LastOp(ops).body)
            /\ proc[r].pc = "done" =>
                  \A o \in OpSet(ops) :
                      o.op = "put_version" => EntriesMatch(Store(r), o.body)
            /\ \A o \in OpSet(Copies(ops)) :
                  /\ o.meta # NoMeta
                  /\ Exists(Store(r), o.key)
                  /\ Store(r)[o.key].meta # NoMeta

\* ... a finished run whose version document has one entry for an archive it
\* copied and one for an archive it found in place.
C19_Witness ==
    /\ proc[1].pc = "done"
    /\ Len(Copies(OpsOf(1))) = 1
    /\ \E o \in OpSet(OpsOf(1)) : o.op = "put_version" /\ Len(Items(o.body)) = 2

\* C20: when two runs with the same command line have raced on one
\* destination and both have finished, the destination is what the same run
\* on its own leaves from the same initial destination.
C20_ConcurrentConfluence ==
    (\A r \in Procs : proc[r].pc = "done") => dest[1] = dest[2]

\* ... after a true race: both runs looked an archive up before either had
\* copied it, and both copied it.
C20_Witness ==
    /\ \A r \in Procs : proc[r].pc = "done"
    /\ variant = "remote"
    /\ \E o1 \in OpSet(Copies(OpsOf(1))), o2 \in OpSet(Copies(OpsOf(2))) : o1.key = o2.key
    /\ DocWrites(OpsOf(1)) # <<>>

====
